---- MODULE Spec2Model ----
(***************************************************************************)
(* The game lifecycle controller of hanabi-live: Game.CheckEnd,            *)
(* Game.CheckTimer and Game.End (src/src/game.go, src/src/gameEnd.go),     *)
(* driven by the action-submission pathway (commandAction) under the       *)
(* global command lock.                                                    *)
(***************************************************************************)
EXTENDS Integers, Sequences, FiniteSets, TLC

VARIABLES
    g,            \* the Game object (src/src/game.go:10-41)
    games,        \* the games registry: key -> "g" (this object) or "other"
    db,           \* the rows held by the database
    sessions,     \* per-user session attributes (currentGame, status)
    sent,         \* the messages emitted by the handler that ran last, in order
    timers,       \* the CheckTimer goroutines that have not returned yet
    commandMutex, \* "free", or "held" by the timer whose pc is "locked"
    last          \* what the handler that ran last did (its inputs and path)

vars == <<g, games, db, sessions, sent, timers, commandMutex, last>>

----------------------------------------------------------------------------
(* Bounds of the model *)

\* the players of the table are users 1..NumPlayers
NumPlayers == 2
\* moves submitted after the state the model starts in
MaxMoves == 2
\* timers in flight while a further move is submitted
MaxTimers == 2
\* the database hands out identifiers 1..MaxDBID
MaxDBID == 3
\* CheckEnd inputs: number of suits and deck length of the enumerated states
MaxSuits == 2
MaxDeck == 1

(* Program constants *)

\* ranks per suit: MaxScore() is len(Stacks) * 5
RanksPerSuit == 5
\* the strike maximum tested by CheckEnd
MaxStrikes == 3
\* EndCondition values written by CheckEnd
EndNormal == 1
EndStrikeout == 2
\* the CommandData type of the synthetic "time ran out" action
ActionTimeout == 4

----------------------------------------------------------------------------
(* Helpers *)

RECURSIVE SumTime(_, _)
SumTime(players, n) ==
    IF n = 0 THEN 0 ELSE SumTime(players, n - 1) + players[n].Time

\* the zero value of the Action struct
NoAction == [Type |-> "", Num |-> 0, Who |-> 0, Text |-> <<>>,
             Score |-> 0, Loss |-> FALSE]

\* the user IDs of the players of the game
PlayerIDs(gm) == {gm.Players[i].ID : i \in 1..Len(gm.Players)}

\* everybody a Notify* method of the game sends to: players, then spectators
Audience(gm) == PlayerIDs(gm) \cup gm.Spectators

MaxScore(gm) == Len(gm.Stacks) * RanksPerSuit

----------------------------------------------------------------------------
(* Game.CheckEnd: the new EndCondition and the returned boolean *)

\* Playable without the test of the discarded flag
PlayableAnyCopy(gm, i) ==
    \E k \in 1..Len(gm.Deck) :
        /\ gm.Deck[k].Suit = i
        /\ gm.Deck[k].Rank = gm.Stacks[i + 1] + 1

\* a card that can still be played on stack i (0-based suit i)
Playable(gm, i) ==
    \E k \in 1..Len(gm.Deck) :
        /\ gm.Deck[k].Suit = i
        /\ gm.Deck[k].Rank = gm.Stacks[i + 1] + 1
        /\ ~gm.Deck[k].Discarded

\* CheckEnd with EndCondition reset when the game continues
CheckEndResets(gm) ==
    IF gm.Strikes = MaxStrikes
    THEN [g |-> [gm EXCEPT !.EndCondition = EndStrikeout], ret |-> TRUE]
    ELSE IF gm.Turn = gm.EndTurn
    THEN [g |-> [gm EXCEPT !.EndCondition = EndNormal], ret |-> TRUE]
    ELSE IF gm.Score = MaxScore(gm)
    THEN [g |-> [gm EXCEPT !.EndCondition = EndNormal], ret |-> TRUE]
    ELSE IF \E i \in 0..(Len(gm.Stacks) - 1) : Playable(gm, i)
    THEN [g |-> [gm EXCEPT !.EndCondition = 0], ret |-> FALSE]
    ELSE [g |-> [gm EXCEPT !.EndCondition = EndNormal], ret |-> TRUE]

\* CheckEnd without the rule on the strikes
CheckEndNoStrikes(gm) ==
    IF gm.Turn = gm.EndTurn
    THEN [g |-> [gm EXCEPT !.EndCondition = EndNormal], ret |-> TRUE]
    ELSE IF gm.Score = MaxScore(gm)
    THEN [g |-> [gm EXCEPT !.EndCondition = EndNormal], ret |-> TRUE]
    ELSE IF \E i \in 0..(Len(gm.Stacks) - 1) : Playable(gm, i)
    THEN [g |-> gm, ret |-> FALSE]
    ELSE [g |-> [gm EXCEPT !.EndCondition = EndNormal], ret |-> TRUE]

\* CheckEnd with the final-turn rule tested before the strikes
CheckEndTurnFirst(gm) ==
    IF gm.Turn = gm.EndTurn
    THEN [g |-> [gm EXCEPT !.EndCondition = EndNormal], ret |-> TRUE]
    ELSE IF gm.Strikes = MaxStrikes
    THEN [g |-> [gm EXCEPT !.EndCondition = EndStrikeout], ret |-> TRUE]
    ELSE IF gm.Score = MaxScore(gm)
    THEN [g |-> [gm EXCEPT !.EndCondition = EndNormal], ret |-> TRUE]
    ELSE IF \E i \in 0..(Len(gm.Stacks) - 1) : Playable(gm, i)
    THEN [g |-> gm, ret |-> FALSE]
    ELSE [g |-> [gm EXCEPT !.EndCondition = EndNormal], ret |-> TRUE]

CheckEnd(gm) ==
    IF gm.Strikes = MaxStrikes
    THEN [g |-> [gm EXCEPT !.EndCondition = EndStrikeout], ret |-> TRUE]
    ELSE IF gm.Turn = gm.EndTurn
    THEN [g |-> [gm EXCEPT !.EndCondition = EndNormal], ret |-> TRUE]
    ELSE IF gm.Score = MaxScore(gm)
    THEN [g |-> [gm EXCEPT !.EndCondition = EndNormal], ret |-> TRUE]
    ELSE IF \E i \in 0..(Len(gm.Stacks) - 1) : Playable(gm, i)
    THEN [g |-> gm, ret |-> FALSE]
    ELSE [g |-> [gm EXCEPT !.EndCondition = EndNormal], ret |-> TRUE]

----------------------------------------------------------------------------
(* Game.End (src/src/gameEnd.go:12-239), as a function of the state it    *)
(* reads and of what the database answers.  Timestamps are not modelled.  *)

\* everybody connected to the server (the lobby)
AllUsers == 1..(NumPlayers + 1)

Msg(type, to, body) == [type |-> type, to |-> to, body |-> body]

\* durationToString, which this repository keeps outside src/: a duration
\* in seconds as minutes and seconds ("2m5s")
durationToString(d) == <<d \div 60, "m", d % 60, "s">>

\* the annotations with the total time left negative
AnnotationsNotNegated(gm) ==
    IF gm.Options.Timed
    THEN <<[NoAction EXCEPT !.Type = "turn", !.Num = gm.Turn,
                            !.Who = gm.ActivePlayer]>>
         \o [i \in 1..Len(gm.Players) |->
                [NoAction EXCEPT !.Text = <<gm.Players[i].Name,
                     " finished with a time of ",
                     durationToString(gm.Players[i].Time)>>]]
    ELSE <<[NoAction EXCEPT !.Text = <<"The total game duration was: ",
                durationToString(SumTime(gm.Players, Len(gm.Players)))>>]>>

\* lines 15-48: the replay-only text actions
Annotations(gm) ==
    IF gm.Options.Timed
    THEN <<[NoAction EXCEPT !.Type = "turn", !.Num = gm.Turn,
                            !.Who = gm.ActivePlayer]>>
         \o [i \in 1..Len(gm.Players) |->
                [NoAction EXCEPT !.Text = <<gm.Players[i].Name,
                     " finished with a time of ",
                     durationToString(gm.Players[i].Time)>>]]
    ELSE <<[NoAction EXCEPT !.Text = <<"The total game duration was: ",
                durationToString(
                    (-1) * SumTime(gm.Players, Len(gm.Players)))>>]>>

\* lines 50-59: the "gameOver" action
GameOverAction(gm) ==
    [NoAction EXCEPT !.Type = "gameOver", !.Score = gm.Score,
                     !.Loss = (gm.EndCondition > 1)]

\* Game.NotifyAction: the last action, to the players and the spectators
NotifyAction(gm) ==
    <<Msg("notify", Audience(gm), gm.Actions[Len(gm.Actions)])>>

\* Game.NotifyTime
NotifyTime(gm) == <<Msg("clock", Audience(gm), <<>>)>>

\* lines 66-82: one "reveal" per card of each player's hand
RECURSIVE Reveals(_, _)
Reveals(gm, n) ==
    IF n = 0 THEN <<>>
    ELSE Reveals(gm, n - 1)
         \o [k \in 1..Len(gm.Players[n].Hand) |->
                Msg("reveal", {gm.Players[n].ID},
                    gm.Deck[gm.Players[n].Hand[k]])]

\* End with the score zeroed whatever the end condition is
ZeroScoreAlways(gm) == [gm EXCEPT !.Score = 0]

\* End without the zeroing of the score
ZeroScoreNever(gm) == gm

\* lines 84-86: the score is zeroed on a loss
ZeroScore(gm) ==
    IF gm.EndCondition > 1 THEN [gm EXCEPT !.Score = 0] ELSE gm

\* lines 96-107
GameRow(gm, id) ==
    [ID |-> id, Name |-> gm.Name, Owner |-> gm.Owner, Score |-> gm.Score,
     EndCondition |-> gm.EndCondition]

\* the error tests without the one on the count of similar games
FailedCountIgnored(in) == in.fail \notin {"none", "similar"}

\* the error tests of lines 109, 118, 134 and 141: each is followed by a
\* return.  in.fail names the database call that fails
Failed(in) == in.fail # "none"

\* the action rows inserted from the newest action to the oldest
ActionRowsNewestFirst(gm, id, n) ==
    [i \in 1..n |->
        [Game |-> id, Action |-> gm.Actions[Len(gm.Actions) + 1 - i]]]

\* lines 124-138: one row per action, in the order of the log, up to the
\* n-th
ActionRows(gm, id, n) ==
    [i \in 1..n |-> [Game |-> id, Action |-> gm.Actions[i]]]

\* lines 95-146: the rows the database holds after the inserts, each
\* answered with success or failure; in.at is the row a failure is at
Inserted(d, gm, in) ==
    IF in.fail = "game" THEN d
    ELSE
    LET d1 == [d EXCEPT !.games = Append(@, GameRow(gm, in.dbid))]
        np == IF in.fail = "participant" THEN in.at - 1 ELSE Len(gm.Players)
        d2 == [d1 EXCEPT !.participants = @ \o
                 [i \in 1..np |-> [User |-> gm.Players[i].ID, Game |-> in.dbid,
                                   Notes |-> gm.Players[i].Notes]]]
        na == IF in.fail = "action" THEN in.at - 1 ELSE Len(gm.Actions)
        d3 == [d2 EXCEPT !.actions = @ \o ActionRows(gm, in.dbid, na)]
    IN  IF in.fail = "participant" THEN d2 ELSE d3

Persist(d, gm, in) == [ok |-> ~Failed(in), db |-> Inserted(d, gm, in)]

\* lines 148-169: the "gameHistory" message of each player
History(gm, d, in) ==
    [i \in 1..Len(gm.Players) |->
        Msg("gameHistory", {gm.Players[i].ID},
            [ID |-> in.dbid, NumPlayers |-> Len(gm.Players),
             NumSimilar |-> Len(d.games), Score |-> gm.Score,
             OtherPlayerNames |->
                {gm.Players[j].Name : j \in {k \in 1..Len(gm.Players) :
                     gm.Players[k].Name # gm.Players[i].Name}}])]

\* announceGameResult (lines 241-267)
AnnounceGameResult(gm, id) ==
    <<Msg("chat", AllUsers,
          [Players |-> [i \in 1..Len(gm.Players) |-> gm.Players[i].Name],
           Score |-> gm.Score,
           Emote |-> IF gm.Score = MaxScore(gm) THEN "PogChamp"
                     ELSE IF gm.Score = 0 THEN "BibleThump" ELSE "",
           ID |-> id, Name |-> gm.Name])>>

\* the registry test made once the game's own key is out of the way
CollidesWithOther(reg, id) == id \in DOMAIN reg /\ reg[id] # "g"

\* the registry test left out
CollidesNever(reg, id) == FALSE

\* lines 176-180: the identifier is already a key of the registry
Collides(reg, id) == id \in DOMAIN reg

\* the re-keying without the delete of the old key
RekeyKeepOld(reg, gm, id) ==
    [k \in DOMAIN reg \cup {id} |-> IF k = id THEN "g" ELSE reg[k]]

\* lines 181-185: the same object, re-keyed
Rekey(reg, gm, id) ==
    [k \in (DOMAIN reg \ {gm.ID}) \cup {id} |->
        IF k = id THEN "g" ELSE reg[k]]

\* the notes of the players that are present only
IsPresent(p) == p.Present

PlayerNotesPresentOnly(gm) ==
    LET ps == SelectSeq(gm.Players, IsPresent)
    IN  [i \in 1..Len(ps) |->
            [ID |-> ps[i].ID, Name |-> ps[i].Name, Notes |-> ps[i].Notes]]

\* lines 187-196
PlayerNotes(gm) ==
    [i \in 1..Len(gm.Players) |->
        [ID |-> gm.Players[i].ID, Name |-> gm.Players[i].Name,
         Notes |-> gm.Players[i].Notes]]

\* the conversion with the test of the Present flag inverted
ConvertedOffline(gm) ==
    gm.Spectators \cup
        {gm.Players[i].ID : i \in {k \in 1..Len(gm.Players) :
                                       ~gm.Players[k].Present}}

\* the conversion without the test of the Present flag
ConvertedAll(gm) ==
    gm.Spectators \cup {gm.Players[i].ID : i \in 1..Len(gm.Players)}

\* lines 198-211: the players that are present become spectators
Converted(gm) ==
    gm.Spectators \cup
        {gm.Players[i].ID : i \in {k \in 1..Len(gm.Players) :
                                       gm.Players[k].Present}}

\* lines 223-234: the range over the spectator map, which visits the
\* spectators in no particular order: each one is announced to the lobby
\* (notifyAllUser) and is sent the replay leader and the notes
SpectatorMsgs(gm, notes) ==
    <<Msg("spectatorLoop", gm.Spectators,
          [leader |-> gm.Owner, notes |-> notes])>>

\* lines 176-239: the game becomes a shared replay
Migrate(gm, reg, ses, out, in) ==
    IF Collides(reg, in.dbid)
    THEN [g |-> gm, games |-> reg, sessions |-> ses, sent |-> out,
          path |-> "collision"]
    ELSE
    LET reg1 == Rekey(reg, gm, in.dbid)
        g1 == [gm EXCEPT !.ID = in.dbid, !.SharedReplay = TRUE,
                         !.Name = <<"Shared replay for game #", in.dbid>>]
        notes == PlayerNotes(g1)
        ses1 == [u \in DOMAIN ses |->
                    IF u \in PlayerIDs(g1)
                    THEN [ses[u] EXCEPT !.currentGame = -1] ELSE ses[u]]
        g2 == [g1 EXCEPT !.Spectators = Converted(g1), !.Players = <<>>]
    IN  IF g2.Spectators = {}
        THEN [g |-> g2,
              games |-> [k \in DOMAIN reg1 \ {g2.ID} |-> reg1[k]],
              sessions |-> ses1, sent |-> out, path |-> "empty"]
        ELSE [g |-> g2, games |-> reg1,
              sessions |-> [u \in DOMAIN ses1 |->
                  IF u \in g2.Spectators
                  THEN [currentGame |-> g2.ID, status |-> "Shared Replay"]
                  ELSE ses1[u]],
              sent |-> out \o SpectatorMsgs(g2, notes)
                       \o <<Msg("table", AllUsers,
                                [ID |-> g2.ID, Name |-> g2.Name,
                                 SharedReplay |-> g2.SharedReplay,
                                 NumPlayers |-> Len(g2.Players)])>>
                       \o <<Msg("spectators", Audience(g2), g2.Spectators)>>,
              path |-> "replay"]

\* End with the table-removed notification sent after the inserts
EndGoneAfterInserts(gm, reg, d, ses, in) ==
    LET g1 == [gm EXCEPT !.Actions = @ \o Annotations(gm)]
        g2 == [g1 EXCEPT !.Actions = Append(@, GameOverAction(g1))]
        out1 == NotifyAction(g2) \o NotifyTime(g2)
                \o Reveals(g2, Len(g2.Players))
        g3 == ZeroScore(g2)
        p == Persist(d, g3, in)
    IN  IF ~p.ok
        THEN [g |-> g3, games |-> reg, db |-> p.db, sessions |-> ses,
              sent |-> out1, path |-> "dbfail"]
        ELSE LET out3 == out1 \o <<Msg("tableGone", AllUsers, g3.ID)>>
                         \o History(g3, p.db, in)
                         \o AnnounceGameResult(g3, in.dbid)
                 m == Migrate(g3, reg, ses, out3, in)
             IN  [g |-> m.g, games |-> m.games, db |-> p.db,
                  sessions |-> m.sessions, sent |-> m.sent, path |-> m.path]

\* Game.End
End(gm, reg, d, ses, in) ==
    LET g1 == [gm EXCEPT !.Actions = @ \o Annotations(gm)]
        g2 == [g1 EXCEPT !.Actions = Append(@, GameOverAction(g1))]
        out1 == NotifyAction(g2) \o NotifyTime(g2)
                \o Reveals(g2, Len(g2.Players))
        g3 == ZeroScore(g2)
        out2 == out1 \o <<Msg("tableGone", AllUsers, g3.ID)>>
        p == Persist(d, g3, in)
    IN  IF ~p.ok
        THEN [g |-> g3, games |-> reg, db |-> p.db, sessions |-> ses,
              sent |-> out2, path |-> "dbfail"]
        ELSE LET out3 == out2 \o History(g3, p.db, in)
                         \o AnnounceGameResult(g3, in.dbid)
                 m == Migrate(g3, reg, ses, out3, in)
             IN  [g |-> m.g, games |-> m.games, db |-> p.db,
                  sessions |-> m.sessions, sent |-> m.sent, path |-> m.path]

----------------------------------------------------------------------------
(* The game the model starts in *)

\* The model starts some turns into a game of one suit, with the first
\* player active again: the 1 has been played, a 3 and a 5 have been
\* misplayed (two strikes), the active player holds the 2 and every other
\* player a 4; the log holds the last two turn actions.  Either one more
\* card (a second 1) waits in the deck, or the deck is exhausted and the
\* turn that follows is the final one.
StartTurn == 2 * NumPlayers

StartRanks(extra) ==
    <<1, 3, 5, 2>> \o [i \in 1..(NumPlayers - 1) |-> 4]
    \o (IF extra THEN <<1>> ELSE <<>>)

StartDeck(extra) ==
    [k \in 1..Len(StartRanks(extra)) |->
        [Suit |-> 0, Rank |-> StartRanks(extra)[k], Order |-> k - 1,
         Discarded |-> k \in {2, 3}]]

StartGame(timed, spectators, extra) ==
    [ID |-> 1, Name |-> <<"table">>, Owner |-> 1,
     Options |-> [Timed |-> timed],
     Players |-> [i \in 1..NumPlayers |->
                    [ID |-> i, Name |-> i, Hand |-> <<3 + i>>,
                     Time |-> IF timed THEN 2 ELSE -(61 + i),
                     Notes |-> <<"notes of", i>>, Present |-> TRUE]],
     Spectators |-> spectators, SharedReplay |-> FALSE, EndCondition |-> 0,
     Deck |-> StartDeck(extra), DeckIndex |-> 3 + NumPlayers,
     Stacks |-> <<1>>, Turn |-> StartTurn, ActivePlayer |-> 0, Score |-> 1,
     Strikes |-> 2,
     Actions |-> <<[NoAction EXCEPT !.Type = "turn",
                                    !.Num = StartTurn - 1,
                                    !.Who = NumPlayers - 1],
                   [NoAction EXCEPT !.Type = "turn", !.Num = StartTurn,
                                    !.Who = 0]>>,
     EndTurn |-> IF extra THEN -1 ELSE StartTurn + 1]

----------------------------------------------------------------------------
(* The action-submission pathway (commandAction), which this repository   *)
(* keeps outside src/: an applied move, the turn advance, CheckEnd, and    *)
(* End() when CheckEnd says the game must stop; otherwise the timer of     *)
(* the next turn is started in a timed game.                               *)

\* the card that the active player draws after a play or a discard
Draw(gm) ==
    LET a == gm.ActivePlayer + 1 IN
    IF gm.DeckIndex >= Len(gm.Deck) THEN gm
    ELSE LET g1 == [gm EXCEPT !.Players[a].Hand = Append(@, gm.DeckIndex + 1),
                              !.DeckIndex = @ + 1]
         IN  IF g1.DeckIndex >= Len(g1.Deck)
             THEN [g1 EXCEPT !.EndTurn = g1.Turn + Len(g1.Players) + 1]
             ELSE g1

\* d.Type: 0 clue, 1 play, 2 discard (of the first card of the hand),
\* 4 "time ran out"
ApplyMove(gm, type) ==
    LET a == gm.ActivePlayer + 1
        c == gm.Players[a].Hand[1]
        rest == [gm EXCEPT !.Players[a].Hand = Tail(@)]
    IN  IF type = 1
        THEN IF gm.Deck[c].Rank = gm.Stacks[gm.Deck[c].Suit + 1] + 1
             THEN Draw([rest EXCEPT !.Stacks[gm.Deck[c].Suit + 1] = @ + 1,
                                    !.Score = @ + 1])
             ELSE Draw([rest EXCEPT !.Strikes = @ + 1,
                                    !.Deck[c].Discarded = TRUE])
        ELSE IF type = 2
        THEN Draw([rest EXCEPT !.Deck[c].Discarded = TRUE])
        ELSE IF type = ActionTimeout
        THEN [gm EXCEPT !.Strikes = MaxStrikes]
        ELSE gm

\* a move the active player may submit
Legal(gm, type) ==
    /\ gm.Players # <<>>
    /\ gm.Turn < StartTurn + MaxMoves
    /\ type \in {1, 2} => gm.Players[gm.ActivePlayer + 1].Hand # <<>>
    /\ (/\ type = 1
        /\ LET c == gm.Players[gm.ActivePlayer + 1].Hand[1]
           IN  gm.Deck[c].Rank # gm.Stacks[gm.Deck[c].Suit + 1] + 1)
       => gm.Strikes < MaxStrikes

NextTurn(gm) ==
    LET g1 == [gm EXCEPT !.Turn = @ + 1,
                         !.ActivePlayer = (@ + 1) % Len(gm.Players)]
    IN  [g1 EXCEPT !.Actions = Append(@,
            [NoAction EXCEPT !.Type = "turn", !.Num = g1.Turn,
                             !.Who = g1.ActivePlayer])]

NoGame == [ID |-> 0]

commandAction(gm, reg, d, ses, type, in) ==
    LET g1 == NextTurn(ApplyMove(gm, type))
        out == NotifyAction(g1)
        ce == CheckEnd(g1)
    IN  IF ce.ret
        THEN LET e == End(ce.g, reg, d, ses, in)
             IN  [g |-> e.g, games |-> e.games, db |-> e.db,
                  sessions |-> e.sessions, sent |-> out \o e.sent,
                  started |-> {}, ended |-> TRUE, path |-> e.path,
                  g0 |-> ce.g]
        ELSE [g |-> ce.g, games |-> reg, db |-> d, sessions |-> ses,
              sent |-> out,
              started |-> IF ce.g.Options.Timed
                          THEN {[turn |-> ce.g.Turn, who |-> ce.g.ActivePlayer,
                                 pc |-> "sleep"]}
                          ELSE {},
              ended |-> FALSE, path |-> "", g0 |-> NoGame]

----------------------------------------------------------------------------
(* What the environment answers to an End() that starts in game gm *)

NoInput == [fail |-> "none", at |-> 0, dbid |-> 0]

\* the identifiers the database can give to a new game row
FreshIDs(d) == (1..MaxDBID) \ {d.games[i].ID : i \in 1..Len(d.games)}

\* the identifier given to the row of an End() that fails later on
LowID(d) ==
    IF FreshIDs(d) = {} THEN {}
    ELSE {CHOOSE x \in FreshIDs(d) : \A y \in FreshIDs(d) : x <= y}

\* the length of the action log when End() persists it
LogLen(gm) == Len(gm.Actions) + Len(Annotations(gm)) + 1

EndInputs(gm, reg, d) ==
    {[NoInput EXCEPT !.fail = "game"]}
    \cup {[NoInput EXCEPT !.fail = "participant", !.at = i, !.dbid = id] :
             i \in {1, Len(gm.Players)}, id \in LowID(d)}
    \cup {[NoInput EXCEPT !.fail = "action", !.at = i, !.dbid = id] :
             i \in {LogLen(gm)}, id \in LowID(d)}
    \cup {[NoInput EXCEPT !.fail = "similar", !.dbid = id] : id \in LowID(d)}
    \cup {[NoInput EXCEPT !.dbid = id] : id \in FreshIDs(d)}

\* the inputs of a handler that runs commandAction on gm with a move
Inputs(gm, reg, d, type) ==
    IF CheckEnd(NextTurn(ApplyMove(gm, type))).ret
    THEN EndInputs(NextTurn(ApplyMove(gm, type)), reg, d)
    ELSE {NoInput}

----------------------------------------------------------------------------
(* The state machine *)

NoLast == [op |-> "start", type |-> -1, turn |-> -1, ended |-> FALSE,
           path |-> "", g0 |-> NoGame, in |-> NoInput, ends |-> 0,
           ret |-> FALSE]

Init ==
    \E timed \in BOOLEAN, spectators \in {{}, {NumPlayers + 1}},
       extra \in BOOLEAN :
        /\ g = StartGame(timed, spectators, extra)
        /\ games = (1 :> "g") @@ (2 :> "other")
        /\ db = [games |-> <<>>, participants |-> <<>>, actions |-> <<>>]
        /\ sessions = [u \in AllUsers |->
                         IF u \in 1..NumPlayers \cup spectators
                         THEN [currentGame |-> 1, status |-> "Playing"]
                         ELSE [currentGame |-> -1, status |-> "Lobby"]]
        /\ sent = <<>>
        /\ timers = IF timed
                    THEN {[turn |-> StartTurn, who |-> 0, pc |-> "sleep"]}
                    ELSE {}
        /\ commandMutex = "free"
        /\ last = NoLast

\* a handler ran commandAction: its result becomes the state
Commit(r, type, turn, in) ==
    /\ g' = r.g
    /\ games' = r.games
    /\ db' = r.db
    /\ sessions' = r.sessions
    /\ sent' = r.sent
    /\ last' = [op |-> IF turn = -1 THEN "action" ELSE "timer",
                type |-> type, turn |-> turn, ended |-> r.ended,
                path |-> r.path, g0 |-> r.g0, in |-> in,
                ends |-> last.ends + (IF r.ended THEN 1 ELSE 0),
                ret |-> r.ended]

\* a player's "action" command, handled under the command lock
PlayerAction ==
    /\ commandMutex = "free"
    /\ g.Players # <<>>
    /\ g.Players[g.ActivePlayer + 1].Present
    /\ Cardinality(timers) < MaxTimers
    /\ \E type \in {0, 1, 2} :
        /\ Legal(g, type)
        /\ \E in \in Inputs(g, games, db, type) :
            \E r \in {commandAction(g, games, db, sessions, type, in)} :
                /\ Commit(r, type, -1, in)
                /\ timers' = timers \cup r.started
    /\ UNCHANGED commandMutex

\* a player's connection is lost, or comes back
Disconnect ==
    /\ commandMutex = "free"
    /\ \E i \in 1..Len(g.Players) :
        g' = [g EXCEPT !.Players[i].Present = ~@]
    /\ sent' = <<>>
    /\ last' = [NoLast EXCEPT !.op = "presence", !.ends = last.ends]
    /\ UNCHANGED <<games, db, sessions, timers, commandMutex>>

\* the sleep is over and CheckTimer goes on without the lock
TimerLockNotTaken(t) ==
    /\ t \in timers
    /\ t.pc = "sleep"
    /\ timers' = (timers \ {t}) \cup {[t EXCEPT !.pc = "locked"]}
    /\ UNCHANGED <<g, games, db, sessions, sent, last, commandMutex>>

\* CheckTimer, lines 283-285: the sleep is over and the lock is acquired
TimerLock(t) ==
    /\ t \in timers
    /\ t.pc = "sleep"
    /\ commandMutex = "free"
    /\ commandMutex' = "held"
    /\ timers' = (timers \ {t}) \cup {[t EXCEPT !.pc = "locked"]}
    /\ UNCHANGED <<g, games, db, sessions, sent, last>>

\* the staleness test with one of its two conditions left out
TimerStaleEndOnly(gm, t) == gm.EndCondition > 0

TimerStaleTurnOnly(gm, t) == t.turn # gm.Turn

\* a timer that returns whatever it finds
TimerStaleAlways(gm, t) == TRUE

\* lines 287-297: the timer has nothing to do
TimerStale(gm, t) == gm.EndCondition > 0 \/ t.turn # gm.Turn

\* CheckTimer, lines 287-305, with the deferred unlock
CheckTimer(t) ==
    /\ t \in timers
    /\ t.pc = "locked"
    /\ commandMutex' = "free"
    /\ IF TimerStale(g, t)
       THEN /\ timers' = timers \ {t}
            /\ sent' = <<>>
            /\ last' = [NoLast EXCEPT !.op = "timer", !.turn = t.turn,
                                      !.ends = last.ends]
            /\ UNCHANGED <<g, games, db, sessions>>
       ELSE LET g1 == [g EXCEPT !.Players[t.who + 1].Time = 0]
            IN  \E in \in Inputs(g1, games, db, ActionTimeout) :
                  \E r \in {commandAction(g1, games, db, sessions,
                                         ActionTimeout, in)} :
                      /\ Commit(r, ActionTimeout, t.turn, in)
                      /\ timers' = (timers \ {t}) \cup r.started

Next ==
    \/ PlayerAction
    \/ Disconnect
    \/ \E t \in timers : TimerLock(t)
    \/ \E t \in timers : CheckTimer(t)

Spec == Init /\ [][Next]_vars

----------------------------------------------------------------------------
(* CheckEnd on its own: the games it can be called on, after a move and   *)
(* the turn advance, with up to MaxSuits stacks and MaxDeck cards          *)

RECURSIVE SumStacks(_, _)
SumStacks(stacks, n) ==
    IF n = 0 THEN 0 ELSE SumStacks(stacks, n - 1) + stacks[n]

Cards(n) ==
    [Suit : 0..(n - 1), Rank : 1..RanksPerSuit, Discarded : BOOLEAN]

Decks(n) ==
    UNION {[1..len -> Cards(n)] : len \in 0..MaxDeck}

InitCheckEnd ==
    \E n \in 1..MaxSuits :
      \E stacks \in [1..n -> 0..RanksPerSuit], cards \in Decks(n),
         strikes \in {MaxStrikes - 1, MaxStrikes}, endTurn \in {-1, 1} :
       \* EndCondition is 1 already when End() has returned early and a
       \* further move is applied, here one that is no misplay, before the
       \* deck is exhausted
       \E endCondition \in IF endTurn = -1 /\ strikes # MaxStrikes
                            THEN {0, EndNormal} ELSE {0} :
        /\ g = [StartGame(FALSE, {}, FALSE) EXCEPT
                  !.Deck = [k \in 1..Len(cards) |->
                              [Suit |-> cards[k].Suit, Rank |-> cards[k].Rank,
                               Order |-> k - 1,
                               Discarded |-> cards[k].Discarded]],
                  !.DeckIndex = Len(cards),
                  !.Stacks = stacks, !.Score = SumStacks(stacks, n),
                  !.Strikes = strikes, !.Turn = 1, !.ActivePlayer = 1,
                  !.EndTurn = endTurn, !.EndCondition = endCondition]
        /\ games = (1 :> "g")
        /\ db = [games |-> <<>>, participants |-> <<>>, actions |-> <<>>]
        /\ sessions = [u \in AllUsers |->
                         [currentGame |-> -1, status |-> "Lobby"]]
        /\ sent = <<>>
        /\ timers = {}
        /\ commandMutex = "free"
        /\ last = NoLast

\* one call of CheckEnd
CallCheckEnd ==
    /\ last.op = "start"
    /\ g' = CheckEnd(g).g
    /\ last' = [NoLast EXCEPT !.op = "CheckEnd", !.g0 = g,
                              !.ret = CheckEnd(g).ret]
    /\ UNCHANGED <<games, db, sessions, sent, timers, commandMutex>>

SpecCheckEnd == InitCheckEnd /\ [][CallCheckEnd]_vars

----------------------------------------------------------------------------
(* Properties.  last describes the handler that ran last: last.g0 is the   *)
(* game End() was called on, last.in what the database answered,           *)
(* last.ends the number of calls of End() so far.                          *)

\* for every suit index i with stack height h, every card of the deck of
\* suit i and rank h + 1 is marked discarded
Stuck(gm) ==
    \A i \in 0..(Len(gm.Stacks) - 1) :
        \A k \in 1..Len(gm.Deck) :
            (gm.Deck[k].Suit = i /\ gm.Deck[k].Rank = gm.Stacks[i + 1] + 1)
                => gm.Deck[k].Discarded

\* C1: a second call of End() on a game that End() has already run on is
\* refused: it appends no action, inserts no row, sends nothing and changes
\* no field of the game or of the registry.
C1_SecondEndRefused ==
    [][(last'.ends = last.ends + 1 /\ last.ends >= 1) =>
            /\ g' = last'.g0
            /\ db' = db
            /\ games' = games
            /\ sent' = NotifyAction(last'.g0)]_vars

\* C2: a timer that holds the lock while g.Turn differs from the turn it
\* was started with returns without changing any state and without
\* submitting the "time ran out" action.
C2_StaleTurnNoEffect ==
    [][\A t \in timers :
          (t.pc = "locked" /\ commandMutex' = "free" /\ t.turn # g.Turn) =>
              /\ g' = g
              /\ games' = games
              /\ db' = db
              /\ sessions' = sessions
              /\ sent' = <<>>
              /\ timers' = timers \ {t}]_vars

\* a timer has just returned on a turn other than its own, in a running game
C2_Witness ==
    /\ last.op = "timer"
    /\ last.type = -1
    /\ last.turn # g.Turn
    /\ g.EndCondition = 0

\* C3: a timer that holds the lock while EndCondition is nonzero returns
\* with no effect, also when g.Turn is still the turn it was started with:
\* no remaining time is zeroed, no "time ran out" action is submitted.
C3_EndedGameNoEffect ==
    [][\A t \in timers :
          (t.pc = "locked" /\ commandMutex' = "free" /\ g.EndCondition # 0) =>
              /\ g' = g
              /\ games' = games
              /\ db' = db
              /\ sessions' = sessions
              /\ sent' = <<>>
              /\ timers' = timers \ {t}]_vars

\* a timer has just returned on its own turn, in a game that has ended
C3_Witness ==
    /\ last.op = "timer"
    /\ last.type = -1
    /\ last.turn = g.Turn
    /\ g.EndCondition # 0
    /\ g.Players # <<>>
    /\ \A i \in 1..Len(g.Players) : g.Players[i].Time # 0

\* C4: when the first End() of a game runs on three strikes, EndCondition
\* is 2, the gameOver action appended and broadcast carries the score the
\* game had before the zeroing with Loss true, and every game row, every
\* gameHistory message and the lobby announcement carry the score 0.
C4_StrikeoutScores ==
    (last.ended /\ last.ends = 1 /\ last.g0.Strikes = MaxStrikes) =>
        LET over == g.Actions[Len(g.Actions)] IN
        /\ g.EndCondition = EndStrikeout
        /\ over.Type = "gameOver"
        /\ over.Score = last.g0.Score
        /\ over.Loss
        /\ \E k \in 1..Len(sent) :
              sent[k].type = "notify" /\ sent[k].body = over
        /\ \A k \in 1..Len(db.games) :
              db.games[k].Score = 0 /\ db.games[k].EndCondition = EndStrikeout
        /\ \A k \in 1..Len(sent) :
              sent[k].type \in {"gameHistory", "chat"} => sent[k].body.Score = 0

\* a strikeout with a positive score was persisted, notified and announced
C4_Witness ==
    /\ last.ended
    /\ last.ends = 1
    /\ last.g0.Strikes = MaxStrikes
    /\ last.g0.Score > 0
    /\ Len(db.games) = 1
    /\ \E k \in 1..Len(sent) : sent[k].type = "gameHistory"
    /\ \E k \in 1..Len(sent) : sent[k].type = "chat"

\* the players whose Present flag was true when End() started
PresentAtStart ==
    {last.g0.Players[i].ID :
        i \in {k \in 1..Len(last.g0.Players) : last.g0.Players[k].Present}}

\* C6 as stated: after the conversion the number of spectators is the
\* number of players that were present when End() started, and if that
\* number is 0 the registry has no entry under the new identifier.
C6_SpectatorsArePresentPlayers ==
    last.path \in {"empty", "replay"} =>
        /\ Cardinality(g.Spectators) = Cardinality(PresentAtStart)
        /\ Cardinality(PresentAtStart) = 0 =>
              last.in.dbid \notin DOMAIN games

\* C6, amended: after the conversion the spectators are the spectators the
\* game had when End() started together with the players that were present
\* then; the registry has no entry under the new identifier if that set is
\* empty, and holds the game under it otherwise.
C6_SpectatorsKeptAndPresentPlayers ==
    last.path \in {"empty", "replay"} =>
        /\ g.Spectators = last.g0.Spectators \cup PresentAtStart
        /\ g.Spectators = {} => last.in.dbid \notin DOMAIN games
        /\ g.Spectators # {} =>
              /\ last.in.dbid \in DOMAIN games
              /\ games[last.in.dbid] = "g"

\* a conversion with a spectator already watching and a player offline
C6_Witness ==
    /\ last.path = "replay"
    /\ last.g0.Spectators # {}
    /\ PresentAtStart # {}
    /\ PresentAtStart # PlayerIDs(last.g0)

\* C8: once EndCondition is nonzero, no step changes it.
C8_EndConditionWriteOnce ==
    [][g.EndCondition # 0 => g'.EndCondition = g.EndCondition]_vars

\* the rows of the game that the last End() was given the identifier of
RowsOfLastEnd ==
    [games |-> {k \in 1..Len(db.games) : db.games[k].ID = last.in.dbid},
     participants |-> {k \in 1..Len(db.participants) :
                          db.participants[k].Game = last.in.dbid},
     actions |-> {k \in 1..Len(db.actions) :
                     db.actions[k].Game = last.in.dbid}]

\* C9: after End() has returned, the summary row, one participant row per
\* player and one action row per logged action have all been inserted, or
\* none of them has.
C9_PersistAllOrNothing ==
    last.ended =>
        \/ /\ RowsOfLastEnd.games = {}
           /\ RowsOfLastEnd.participants = {}
           /\ RowsOfLastEnd.actions = {}
        \/ /\ Cardinality(RowsOfLastEnd.games) = 1
           /\ Cardinality(RowsOfLastEnd.participants) = Len(last.g0.Players)
           /\ Cardinality(RowsOfLastEnd.actions) = Len(g.Actions)

\* C10: when a persistence call of End() has failed, no gameHistory message
\* and no lobby announcement is sent, the game is still in the registry
\* under its old key, SharedReplay is false, the players and the spectators
\* are the ones End() started with, and the tableGone message has been sent.
C10_FailureSkipsLaterSteps ==
    (last.ended /\ last.in.fail # "none") =>
        /\ \A k \in 1..Len(sent) :
              sent[k].type \notin {"gameHistory", "chat", "spectatorLoop",
                                   "table", "spectators"}
        /\ g.ID = last.g0.ID
        /\ g.ID \in DOMAIN games
        /\ games[g.ID] = "g"
        /\ \A k \in DOMAIN games : games[k] = "g" => k = g.ID
        /\ g.SharedReplay = FALSE
        /\ g.Players = last.g0.Players
        /\ g.Players # <<>>
        /\ g.Spectators = last.g0.Spectators
        /\ \E k \in 1..Len(sent) :
              sent[k] = Msg("tableGone", AllUsers, g.ID)

\* the count of similar games failed after every row had been inserted
C10_Witness ==
    /\ last.ended
    /\ last.in.fail = "similar"
    /\ RowsOfLastEnd.games # {}
    /\ Cardinality(RowsOfLastEnd.participants) = Len(g.Players)

\* C11: when the identifier the database gave to the finished game is
\* already a key of the registry, End() leaves the registry as it was, g.ID
\* and g.Name are unchanged, SharedReplay stays false, and no player is
\* converted: the players, the spectators and the sessions are unchanged.
C11_CollisionAbortsMigration ==
    [][(/\ last'.ends = last.ends + 1
        /\ last'.in.fail = "none"
        /\ last'.in.dbid \in DOMAIN games) =>
            /\ games' = games
            /\ g'.ID = g.ID
            /\ g'.Name = g.Name
            /\ g'.SharedReplay = FALSE
            /\ g'.Players = last'.g0.Players
            /\ g'.Players # <<>>
            /\ g'.Spectators = g.Spectators
            /\ sessions' = sessions]_vars

\* the new identifier was the key of another game, which is still there
C11_Witness ==
    /\ last.ended
    /\ last.in.fail = "none"
    /\ last.in.dbid # g.ID
    /\ last.in.dbid \in DOMAIN games
    /\ games[last.in.dbid] = "other"
    /\ Len(db.games) >= 1

\* the action rows of the game that the last End() was given the
\* identifier of, in the order of their insertion
IsRowOfLastEnd(row) == row.Game = last.in.dbid

ActionRowsOfLastEnd == SelectSeq(db.actions, IsRowOfLastEnd)

\* C12: End() only appends to g.Actions, and when every insert has
\* succeeded the action rows it inserted are the actions of the full log,
\* one row per action in the order of the log, the last one being the
\* gameOver action.
C12_LogAppendedAndPersistedInOrder ==
    last.ended =>
        /\ Len(g.Actions) > Len(last.g0.Actions)
        /\ SubSeq(g.Actions, 1, Len(last.g0.Actions)) = last.g0.Actions
        /\ last.in.fail \in {"none", "similar"} =>
              /\ Len(ActionRowsOfLastEnd) = Len(g.Actions)
              /\ \A k \in 1..Len(g.Actions) :
                    ActionRowsOfLastEnd[k].Action = g.Actions[k]
              /\ ActionRowsOfLastEnd[Len(ActionRowsOfLastEnd)].Action.Type
                     = "gameOver"

\* a timed game was persisted: a turn action, one annotation per player
\* and the gameOver action came after the actions of the play
C12_Witness ==
    /\ last.ended
    /\ last.in.fail = "none"
    /\ g.Options.Timed
    /\ Len(last.g0.Actions) >= 3
    /\ Len(ActionRowsOfLastEnd)
           = Len(last.g0.Actions) + Len(last.g0.Players) + 2

\* C13: when End() runs on a game with fewer than three strikes that is not
\* on its final turn, has less than the maximum score and has no
\* undiscarded card of the next rank of any suit, EndCondition is 1, the
\* gameOver action has Loss false, and the score of the game, of the
\* gameOver action, of the game row, of every gameHistory message and of
\* the announcement is the score the game had when End() started.
C13_StuckDeckKeepsScore ==
    (/\ last.ended
     /\ last.g0.Strikes < MaxStrikes
     /\ last.g0.Turn # last.g0.EndTurn
     /\ last.g0.Score < MaxScore(last.g0)
     /\ Stuck(last.g0)) =>
        LET over == g.Actions[Len(g.Actions)] IN
        /\ g.EndCondition = EndNormal
        /\ over.Type = "gameOver"
        /\ over.Loss = FALSE
        /\ over.Score = last.g0.Score
        /\ g.Score = last.g0.Score
        /\ \E k \in 1..Len(sent) :
              sent[k].type = "notify" /\ sent[k].body = over
        /\ \A k \in RowsOfLastEnd.games :
              /\ db.games[k].Score = last.g0.Score
              /\ db.games[k].EndCondition = EndNormal
        /\ \A k \in 1..Len(sent) :
              sent[k].type \in {"gameHistory", "chat"} =>
                  sent[k].body.Score = last.g0.Score

\* a game with a positive score ended on the stuck-deck rule alone, with
\* cards left in the deck, and was persisted, notified and announced
C13_Witness ==
    /\ last.ended
    /\ last.g0.Strikes < MaxStrikes
    /\ last.g0.Turn # last.g0.EndTurn
    /\ last.g0.Score < MaxScore(last.g0)
    /\ last.g0.Score > 0
    /\ Stuck(last.g0)
    /\ RowsOfLastEnd.games # {}
    /\ \E k \in 1..Len(sent) : sent[k].type = "gameHistory"
    /\ \E k \in 1..Len(sent) : sent[k].type = "chat"

C15_TimeoutSubmitsOneAction ==
    [][\A t \in timers :
          (/\ t.pc = "locked"
           /\ commandMutex' = "free"
           /\ g.EndCondition = 0
           /\ t.turn = g.Turn) =>
              LET g1 == [g EXCEPT !.Players[t.who + 1].Time = 0]
                  r == commandAction(g1, games, db, sessions, ActionTimeout,
                                     last'.in)
              IN  /\ t.who = g.ActivePlayer
                  /\ g.Players[t.who + 1].Time # 0
                  /\ last'.op = "timer"
                  /\ last'.type = ActionTimeout
                  /\ last'.turn = t.turn
                  /\ g' = r.g
                  /\ games' = r.games
                  /\ db' = r.db
                  /\ sessions' = r.sessions
                  /\ sent' = r.sent
                  /\ g'.Turn = g.Turn + 1
                  /\ g'.Players # <<>> => g'.Players[t.who + 1].Time = 0
                  /\ last'.ended => last'.g0.Players[t.who + 1].Time = 0
                  /\ t \notin timers']_vars

\* a timer has submitted the action of type 4 and the players are still
\* seated, the timer's player with no time left
C15_Witness ==
    /\ last.op = "timer"
    /\ last.type = ActionTimeout
    /\ commandMutex = "free"
    /\ g.Players # <<>>
    /\ Cardinality({i \in 1..Len(g.Players) : g.Players[i].Time = 0}) = 1

\* the timers between Lock() and their return
Locked == {t \in timers : t.pc = "locked"}

\* C16: a sleeping timer does not hold the command lock and the lock is
\* held exactly while one timer is between Lock() and its return; a
\* sleeping timer is never discarded, it goes on to take the lock; the step
\* of a timer that holds the lock is its return, on the stale exits and on
\* the timeout path alike, and it leaves the lock free; while every timer
\* sleeps the lock is free for a player's action.
C16_TimerLockDiscipline ==
    /\ [](/\ commandMutex = "held" <=> Locked # {}
          /\ Cardinality(Locked) <= 1
          /\ \A t \in timers : t.pc \in {"sleep", "locked"})
    /\ [][/\ \A t \in timers \ Locked :
                t \in timers' \/ [t EXCEPT !.pc = "locked"] \in timers'
          /\ \A t \in Locked :
                /\ t \notin timers'
                /\ commandMutex' = "free"
                /\ \A u \in timers' : u.pc = "sleep"]_vars

\* a player has acted while the timer of an earlier turn was still asleep
C16_Witness ==
    /\ last.op = "action"
    /\ commandMutex = "free"
    /\ \E t \in timers : t.pc = "sleep" /\ t.turn < g.Turn

\* the actions that the last End() appended to the log
AppendedByLastEnd ==
    SubSeq(g.Actions, Len(last.g0.Actions) + 1, Len(g.Actions))

IsText(a) == a.Text # <<>>

\* C17: in an untimed game End() appends one text annotation, whose
\* duration is the negated sum of the players' Time values (a sum of -125
\* seconds reads 2m5s); in a timed game it appends one text annotation per
\* player, with that player's Time; no text annotation is sent to anybody:
\* the one action End() broadcasts is the gameOver action.
C17_AnnotationsReplayOnly ==
    last.ended =>
        LET texts == SelectSeq(AppendedByLastEnd, IsText)
            players == last.g0.Players
        IN  /\ durationToString(125) = <<2, "m", 5, "s">>
            /\ ~g.Options.Timed =>
                  /\ Len(texts) = 1
                  /\ Len(AppendedByLastEnd) = 2
                  /\ texts[1].Text =
                       <<"The total game duration was: ",
                         durationToString(
                             0 - SumTime(players, Len(players)))>>
            /\ g.Options.Timed =>
                  /\ Len(texts) = Len(players)
                  /\ \A i \in 1..Len(players) :
                        texts[i].Text =
                          <<players[i].Name, " finished with a time of ",
                            durationToString(players[i].Time)>>
            /\ \A k \in 1..Len(sent) :
                  sent[k].type = "notify" => ~IsText(sent[k].body)
            /\ \A k \in 2..Len(sent) :
                  sent[k].type = "notify" => sent[k].body.Type = "gameOver"
            /\ Cardinality({k \in 2..Len(sent) : sent[k].type = "notify"}) = 1

\* an untimed game whose players' Time values sum to -125 seconds has ended
C17_Witness ==
    /\ last.ended
    /\ ~g.Options.Timed
    /\ SumTime(last.g0.Players, Len(last.g0.Players)) = -125
    /\ \E k \in 1..Len(g.Actions) :
          g.Actions[k].Text =
              <<"The total game duration was: ", <<2, "m", 5, "s">>>>
    /\ last.g0.Spectators # {}

\* C18: when End() has turned the game into a shared replay with at least
\* one spectator, the spectators have been sent the notes of every player
\* the game had when End() started, in the order of the player list, those
\* of the offline players included.
C18_NotesOfEveryPlayer ==
    (last.ended /\ g.SharedReplay /\ g.Spectators # {}) =>
        \E k \in 1..Len(sent) :
            /\ sent[k].type = "spectatorLoop"
            /\ sent[k].to = g.Spectators
            /\ sent[k].body.notes =
                 [i \in 1..Len(last.g0.Players) |->
                     [ID |-> last.g0.Players[i].ID,
                      Name |-> last.g0.Players[i].Name,
                      Notes |-> last.g0.Players[i].Notes]]

\* a shared replay whose spectators do not include an offline player
C18_Witness ==
    /\ last.ended
    /\ g.SharedReplay
    /\ g.Spectators # {}
    /\ \E i \in 1..Len(last.g0.Players) :
          /\ ~last.g0.Players[i].Present
          /\ last.g0.Players[i].ID \notin g.Spectators
          /\ last.g0.Players[i].Notes # <<>>

\* C19: when every insert of End() has succeeded, the new identifier is no
\* key of the registry and a spectator or a present player is there, the
\* registry afterwards maps the new identifier to the same game object, has
\* no entry under the old identifier and is otherwise unchanged; g.ID is
\* the new identifier, SharedReplay is true, the player list is empty and
\* the Owner is unchanged.
C19_RekeyedInPlace ==
    [][(/\ last'.ends = last.ends + 1
        /\ last'.in.fail = "none"
        /\ last'.in.dbid \notin DOMAIN games
        /\ \/ g.Spectators # {}
           \/ \E i \in 1..Len(g.Players) : g.Players[i].Present) =>
            /\ DOMAIN games' = (DOMAIN games \ {g.ID}) \cup {last'.in.dbid}
            /\ games'[last'.in.dbid] = "g"
            /\ games[g.ID] = "g"
            /\ g.ID \notin DOMAIN games'
            /\ \A k \in DOMAIN games \ {g.ID} : games'[k] = games[k]
            /\ g'.ID = last'.in.dbid
            /\ g'.SharedReplay
            /\ ~g.SharedReplay
            /\ g'.Players = <<>>
            /\ g'.Owner = g.Owner
            /\ g'.Spectators # {}]_vars

\* the game is a shared replay under its new key, another game is still in
\* the registry, and the owner watches
C19_Witness ==
    /\ last.ended
    /\ last.in.fail = "none"
    /\ g.SharedReplay
    /\ g.ID = last.in.dbid
    /\ g.ID # last.g0.ID
    /\ DOMAIN games = {2, g.ID}
    /\ g.Owner \in g.Spectators

\* C20: after End() has converted the players, the player list is empty;
\* every player that was present is a spectator whose session references
\* the shared replay; every player that was offline is no spectator, has
\* its current game reset to -1 and is sent nothing of the spectator loop.
C20_OfflinePlayersDropped ==
    last.path \in {"empty", "replay"} =>
        /\ g.Players = <<>>
        /\ \A i \in 1..Len(last.g0.Players) :
              LET p == last.g0.Players[i] IN
              IF p.Present
              THEN /\ p.ID \in g.Spectators
                   /\ sessions[p.ID].currentGame = g.ID
                   /\ sessions[p.ID].status = "Shared Replay"
              ELSE /\ p.ID \notin g.Spectators
                   /\ sessions[p.ID].currentGame = -1
                   /\ sessions[p.ID].currentGame # g.ID
                   /\ sessions[p.ID].status # "Shared Replay"
                   /\ \A k \in 1..Len(sent) :
                         sent[k].type \in {"spectatorLoop", "spectators"}
                             => p.ID \notin sent[k].to

\* one player was present and became a spectator, another was offline and
\* was dropped
C20_Witness ==
    /\ last.path = "replay"
    /\ \E i, j \in 1..Len(last.g0.Players) :
          /\ last.g0.Players[i].Present
          /\ last.g0.Players[i].ID \in g.Spectators
          /\ ~last.g0.Players[j].Present
          /\ sessions[last.g0.Players[j].ID].currentGame = -1

\* the cards in the hands of the players when the last End() started
HandCardsAtStart ==
    UNION {{<<i, k>> : k \in 1..Len(last.g0.Players[i].Hand)} :
              i \in 1..Len(last.g0.Players)}

\* the score after the zeroing of the last End()
ScoreAfterZeroing ==
    IF last.g0.EndCondition > 1 THEN 0 ELSE last.g0.Score

\* the kinds of the messages End() sends, in the order of its steps
StepsOfLastEnd ==
    <<"notify", "clock">>
    \o [k \in 1..Cardinality(HandCardsAtStart) |-> "reveal"]
    \o <<"tableGone">>
    \o (IF last.in.fail # "none" THEN <<>>
        ELSE [k \in 1..Len(last.g0.Players) |-> "gameHistory"]
             \o <<"chat">>
             \o (IF g.SharedReplay /\ g.Spectators # {}
                 THEN <<"spectatorLoop", "table", "spectators">>
                 ELSE <<>>))

\* C22: what End() sends comes in the order gameOver, clock, the reveals,
\* tableGone and, only when every database call has succeeded, the
\* gameHistory messages, the announcement and the shared-replay table.  The
\* gameOver action carries the score before the zeroing; tableGone carries
\* the live identifier and is sent whichever database call fails; the rows,
\* the gameHistory messages and the announcement carry the score after the
\* zeroing; the table message carries the new identifier, under which the
\* registry holds the game.
C22_StepsInOrder ==
    last.ended =>
        /\ Len(sent) = 1 + Len(StepsOfLastEnd)
        /\ \A k \in 1..Len(StepsOfLastEnd) :
              sent[k + 1].type = StepsOfLastEnd[k]
        /\ \A k \in 2..Len(sent) :
              /\ sent[k].type = "notify" =>
                    /\ sent[k].body.Type = "gameOver"
                    /\ sent[k].body.Score = last.g0.Score
              /\ sent[k].type = "tableGone" => sent[k].body = last.g0.ID
              /\ sent[k].type \in {"gameHistory", "chat"} =>
                    /\ sent[k].body.Score = ScoreAfterZeroing
                    /\ sent[k].body.ID = last.in.dbid
              /\ sent[k].type = "table" =>
                    /\ sent[k].body.ID = last.in.dbid
                    /\ sent[k].body.SharedReplay
                    /\ last.in.dbid \in DOMAIN games
                    /\ games[last.in.dbid] = "g"
        /\ \A k \in RowsOfLastEnd.games :
              db.games[k].Score = ScoreAfterZeroing

\* a lost game with a positive score and cards in hand became a shared
\* replay
C22_Witness ==
    /\ last.ended
    /\ last.g0.EndCondition > 1
    /\ last.g0.Score > 0
    /\ HandCardsAtStart # {}
    /\ last.in.fail = "none"
    /\ last.in.dbid # last.g0.ID
    /\ \E k \in 1..Len(sent) : sent[k].type = "table"

\* C23: when every insert of End() has succeeded and the database has
\* given the game its own live identifier, the lookup finds the game
\* itself and the migration is aborted: the game is still in the registry
\* under that identifier, SharedReplay is false, the players are the ones
\* End() started with and none has become a spectator, and no table is
\* published.
C23_SelfCollisionAborts ==
    (last.ended /\ last.in.fail = "none" /\ last.in.dbid = last.g0.ID) =>
        /\ g.ID = last.g0.ID
        /\ g.ID \in DOMAIN games
        /\ games[g.ID] = "g"
        /\ g.SharedReplay = FALSE
        /\ g.Name = last.g0.Name
        /\ g.Players = last.g0.Players
        /\ g.Players # <<>>
        /\ g.Spectators = last.g0.Spectators
        /\ \A i \in 1..Len(g.Players) :
              sessions[g.Players[i].ID].currentGame = g.ID
        /\ \A k \in 1..Len(sent) :
              sent[k].type \notin {"spectatorLoop", "table", "spectators"}

\* the game was persisted and announced under its own live identifier
C23_Witness ==
    /\ last.ended
    /\ last.in.fail = "none"
    /\ last.in.dbid = g.ID
    /\ g.ID = last.g0.ID
    /\ RowsOfLastEnd.games # {}
    /\ \E k \in 1..Len(sent) :
          sent[k].type = "chat" /\ sent[k].body.ID = g.ID
    /\ \E i \in 1..Len(g.Players) : g.Players[i].Present

----------------------------------------------------------------------------
(* Properties of CheckEnd on its own (SpecCheckEnd): last.g0 is the game   *)
(* CheckEnd was called on, last.ret what it returned.                      *)

\* C5 as stated: CheckEnd returns true if and only if every card of the
\* next rank of every suit is discarded.
C5_TrueIffStuck ==
    last.op = "CheckEnd" => (last.ret <=> Stuck(last.g0))

\* C5, amended: CheckEnd returns true if and only if Strikes is 3, or Turn
\* is EndTurn, or Score is MaxScore(), or every card of the next rank of
\* every suit is discarded.
C5_TrueIffTerminalOrStuck ==
    last.op = "CheckEnd" =>
        (last.ret <=> \/ last.g0.Strikes = MaxStrikes
                      \/ last.g0.Turn = last.g0.EndTurn
                      \/ last.g0.Score = MaxScore(last.g0)
                      \/ Stuck(last.g0))

\* CheckEnd returned true on the stuck-deck rule alone, with a discarded
\* card of the next rank in the deck
C5_Witness ==
    /\ last.op = "CheckEnd"
    /\ last.ret
    /\ last.g0.Strikes # MaxStrikes
    /\ last.g0.Turn # last.g0.EndTurn
    /\ last.g0.Score # MaxScore(last.g0)
    /\ \E k \in 1..Len(last.g0.Deck) :
          /\ last.g0.Deck[k].Rank =
                 last.g0.Stacks[last.g0.Deck[k].Suit + 1] + 1
          /\ last.g0.Deck[k].Discarded

\* C7: whenever Strikes is 3, CheckEnd sets EndCondition to 2, changes
\* nothing else and returns true, whatever the other rules say; it sets
\* EndCondition to 1 only when Strikes is not 3.
C7_StrikesFirst ==
    last.op = "CheckEnd" =>
        /\ last.g0.Strikes = MaxStrikes =>
              /\ last.ret
              /\ g = [last.g0 EXCEPT !.EndCondition = EndStrikeout]
        /\ g.EndCondition = EndNormal => last.g0.Strikes # MaxStrikes

\* three strikes on the final turn with the maximum score: all rules match
C7_Witness ==
    /\ last.op = "CheckEnd"
    /\ last.g0.Strikes = MaxStrikes
    /\ last.g0.Turn = last.g0.EndTurn
    /\ last.g0.Score = MaxScore(last.g0)
    /\ Stuck(last.g0)
    /\ g.EndCondition = EndStrikeout

\* C21: when Strikes is not 3, Turn is not EndTurn, Score is not MaxScore()
\* and some suit has an undiscarded card of its next rank, CheckEnd returns
\* false and leaves the game as it was, EndCondition included; in every
\* case the game differs from the one CheckEnd was called on in
\* EndCondition at most, and CheckEnd returns true exactly when it has
\* written 1 or 2 to EndCondition.
C21_ContinuesUnchanged ==
    last.op = "CheckEnd" =>
        /\ (/\ last.g0.Strikes # MaxStrikes
            /\ last.g0.Turn # last.g0.EndTurn
            /\ last.g0.Score # MaxScore(last.g0)
            /\ ~Stuck(last.g0)) => (~last.ret /\ g = last.g0)
        /\ g = [last.g0 EXCEPT !.EndCondition = g.EndCondition]
        /\ last.ret => g.EndCondition \in {EndNormal, EndStrikeout}
        /\ ~last.ret => g = last.g0

\* CheckEnd returned false on a game whose EndCondition was already 1,
\* with an undiscarded card of the next rank of a suit in the deck
C21_Witness ==
    /\ last.op = "CheckEnd"
    /\ ~last.ret
    /\ last.g0.EndCondition = EndNormal
    /\ g.EndCondition = EndNormal
    /\ \E k \in 1..Len(g.Deck) :
          /\ g.Deck[k].Rank = g.Stacks[g.Deck[k].Suit + 1] + 1
          /\ ~g.Deck[k].Discarded

====
